---- MODULE Spec2Model ----
(***************************************************************************)
(* pqview: reporting commands over the footer metadata of a Parquet file.  *)
(*                                                                         *)
(* The state is the opened file's metadata (pf) and the outcome of the     *)
(* last command that was run on it (out).  Every command of main.py is one *)
(* action; what a command computes is an operator that follows the code    *)
(* line by line.  Python values are represented as follows:                *)
(*   - an optional value (None or v) is the sequence <<>> or <<v>>;        *)
(*   - a dict / Counter is the sequence of its <<key, value>> items in     *)
(*     insertion order;                                                    *)
(*   - a quotient c / u of two sizes is the pair <<c, u>> (u > 0), and is  *)
(*     compared by cross-multiplication;                                   *)
(*   - a string produced by '%.1f' is the sequence of its characters;      *)
(*   - range(0, n) is 0 .. n-1, so row groups and columns are 0-based;     *)
(*   - an uncaught exception ends the command: out.error is its type and   *)
(*     out.line the line of main.py that raised it ("" and 0 when the      *)
(*     command ran to its end).                                            *)
(***************************************************************************)
EXTENDS Integers, Sequences, FiniteSets, TLC

VARIABLES pf, out

vars == <<pf, out>>

(***************************************************************************)
(* Bounds of the model.                                                    *)
(***************************************************************************)
\* row groups and columns of a file, and chunks (row groups * columns) of a file
MaxRG == 3

MaxCol == 3

MaxChunks == 4

\* total_compressed_size values of a chunk, for the commands that only sum them
CSizes == {0, 1, 2}

\* <<total_compressed_size, total_uncompressed_size>> of a chunk, for the
\* commands that divide one by the other
SizePairs == {<<0, 0>>, <<1, 0>>, <<0, 1>>, <<1, 1>>, <<2, 1>>, <<1, 30>>, <<2, 30>>}

\* row groups of the files that differ in their row counts only
MaxRowsRG == 4

\* RowGroupMetaData.num_rows values
RowCounts == {0, 1, 2}

\* values of the min_size option of most_compressed
MinSizes == {-1, 0, 1, 2, 30}

\* values carried by a Statistics object that has min/max
StatValues == {0, 1}

(***************************************************************************)
(* The file metadata, as pyarrow hands it to the commands.                 *)
(***************************************************************************)
PhysicalTypes == {"INT32", "BYTE_ARRAY"}

\* col.path of the schema's leaf number col (distinct per leaf)
ColPath(col) == <<"a", "b", "c", "d", "e", "f">>[col + 1]

\* ColumnChunkMetaData.statistics is None when the chunk carries no
\* Statistics; Statistics.min / .max are None when has_min_max is false.
NoStatistics == [is_set |-> FALSE, has_min_max |-> FALSE, min |-> 0, max |-> 0]

StatsWithoutMinMax == [is_set |-> TRUE, has_min_max |-> FALSE, min |-> 0, max |-> 0]

StatsWithMinMax == {[is_set |-> TRUE, has_min_max |-> TRUE, min |-> lo, max |-> hi] :
                      <<lo, hi>> \in {p \in StatValues \X StatValues : p[1] <= p[2]}}

\* szs: the <<total_compressed_size, total_uncompressed_size>> pairs to draw from
ColumnChunks(szs, sts) ==
    {[total_compressed_size |-> sz[1], total_uncompressed_size |-> sz[2],
      statistics |-> s, compression |-> "SNAPPY"] :
        <<sz, s>> \in szs \X sts}

\* Every row group has the same columns, in schema order; the physical type
\* is a property of the schema leaf.
ParquetFiles(maxrg, maxcol, szs, sts, rcs, pts) ==
    UNION {
      {[num_row_groups |-> R, num_columns |-> C, rg_num_rows |-> rr,
        physical_type |-> pt, chunk |-> ch] :
          <<rr, pt, ch>> \in [0 .. R-1 -> rcs] \X [0 .. C-1 -> pts]
                             \X [0 .. R-1 -> [0 .. C-1 -> ColumnChunks(szs, sts)]]} :
      <<R, C>> \in {s \in (0 .. maxrg) \X (0 .. maxcol) : s[1] * s[2] <= MaxChunks}}

\* pf.metadata.row_group(rg).column(col)
Column(f, rg, col) == f.chunk[rg][col]

\* pf.metadata.row_group(rg).column(col).path_in_schema
PathInSchema(f, col) == ColPath(col)

(***************************************************************************)
(* Python helpers.                                                         *)
(***************************************************************************)
None == <<>>

Some(v) == <<v>>

RECURSIVE SumSeq(_)
SumSeq(s) == IF s = <<>> THEN 0 ELSE Head(s) + SumSeq(Tail(s))

\* k in d.keys()
DictHas(d, k) == \E i \in 1 .. Len(d) : d[i][1] = k

\* d[k] of a Counter: 0 for a missing key
CounterGet(d, k) ==
    IF DictHas(d, k) THEN d[CHOOSE i \in 1 .. Len(d) : d[i][1] = k][2] ELSE 0

\* d[k] = v of a dict: replaces in place, or appends a new key
DictSet(d, k, v) ==
    IF DictHas(d, k)
      THEN [i \in 1 .. Len(d) |-> IF d[i][1] = k THEN <<k, v>> ELSE d[i]]
      ELSE Append(d, <<k, v>>)

\* Counter.__add__: the sum keeps only the keys whose count is positive
CounterAdd(a, b) ==
    LET summed == [i \in 1 .. Len(a) |-> <<a[i][1], a[i][2] + CounterGet(b, a[i][1])>>]
    IN  SelectSeq(summed, LAMBDA e : e[2] > 0)
          \o SelectSeq(b, LAMBDA e : ~DictHas(a, e[1]) /\ e[2] > 0)

\* reduce(add, counters) of a non-empty list: the first element is the
\* initial value, so a list of one element is returned untouched
RECURSIVE ReduceAddFrom(_, _)
ReduceAddFrom(acc, rest) ==
    IF rest = <<>> THEN acc ELSE ReduceAddFrom(CounterAdd(acc, Head(rest)), Tail(rest))

ReduceAdd(counters) == ReduceAddFrom(Head(counters), Tail(counters))

\* sorted(items, key=..., reverse=...): keys[i] is the key of items[i].  The
\* sort is stable, also with reverse=True: items with equal keys keep their
\* original order.
Sorted(items, keys, reverse) ==
    LET n == Len(items)
        Precedes(j, i) ==
            IF keys[j] = keys[i] THEN j < i
            ELSE IF reverse THEN keys[j] > keys[i] ELSE keys[j] < keys[i]
        pos(i) == 1 + Cardinality({j \in 1 .. n : Precedes(j, i)})
    IN  [p \in 1 .. n |-> items[CHOOSE i \in 1 .. n : pos(i) = p]]

\* itemgetter(k) applied to every item
ItemGetter(items, k) == [i \in 1 .. Len(items) |-> items[i][k]]

\* Counter(iterable): counts in order of first occurrence
RECURSIVE CounterOfFrom(_, _)
CounterOfFrom(acc, rest) ==
    IF rest = <<>> THEN acc
    ELSE CounterOfFrom(DictSet(acc, Head(rest), CounterGet(acc, Head(rest)) + 1), Tail(rest))

\* (variant: an element seen again is not counted again)
CounterOfOnce(s) ==
    LET c == CounterOfFrom(<<>>, s) IN [i \in 1 .. Len(c) |-> <<c[i][1], 1>>]

CounterOf(s) == CounterOfFrom(<<>>, s)

\* humanize.naturalsize(n) for 0 <= n < 1000 (the sizes of the model stay
\* below the base of 1000, where the text still carries the exact count)
NaturalSize(n) ==
    CASE n = 1 -> <<n, "Byte">>
      [] n /= 1 /\ n >= 0 /\ n < 1000 -> <<n, "Bytes">>

(***************************************************************************)
(* Traversal orders of the column chunks.                                  *)
(***************************************************************************)
\* for col in range(0, num_columns) for rg in range(0, num_row_groups)
ColMajor(f) ==
    [i \in 1 .. f.num_columns * f.num_row_groups |->
        <<(i - 1) % f.num_row_groups, (i - 1) \div f.num_row_groups>>]

\* (variant: the inner loop stays on column 0)
RgMajorStuck(f) ==
    [i \in 1 .. f.num_row_groups * f.num_columns |-> <<(i - 1) \div f.num_columns, 0>>]

\* for rg in range(0, num_row_groups): for col in range(0, num_columns)
RgMajor(f) ==
    [i \in 1 .. f.num_row_groups * f.num_columns |->
        <<(i - 1) \div f.num_columns, (i - 1) % f.num_columns>>]

(***************************************************************************)
(* render_table: the header keys and one list of cells per record; a       *)
(* record that lacks a key gives None.  An empty list has no out[0].       *)
(***************************************************************************)
render_table(rows) ==
    IF rows = <<>> THEN [error |-> "IndexError", line |-> 29, table |-> <<>>]
    ELSE [error |-> "", line |-> 0, table |-> rows]

\* app() dispatches to one command per process: a command runs only when
\* none has run yet
NotRun == out.cmd = "none"

(***************************************************************************)
(* sizes                                                                   *)
(***************************************************************************)
\* reduce(add, map(Counter, [{path_in_schema: total_compressed_size} ...])),
\* sorted by value, largest first; one line is printed per item.  reduce of an
\* empty list raises TypeError.
sizes_run(f) ==
    LET order == ColMajor(f)
        counters == [i \in 1 .. Len(order) |->
                       << <<PathInSchema(f, order[i][2]),
                            Column(f, order[i][1], order[i][2]).total_compressed_size>> >>]
    IN  IF counters = <<>>
          THEN [error |-> "TypeError", line |-> 85, visited |-> order, printed |-> <<>>]
          ELSE LET summed == ReduceAdd(counters)
                   sizes_ == Sorted(summed, ItemGetter(summed, 2), TRUE)
               IN  [error |-> "", line |-> 0, visited |-> order,
                    printed |-> [i \in 1 .. Len(sizes_) |->
                                   [field |-> sizes_[i][1], num_bytes |-> sizes_[i][2],
                                    text |-> NaturalSize(sizes_[i][2])]]]

sizes ==
    /\ NotRun
    /\ out' = [cmd |-> "sizes"] @@ sizes_run(pf)
    /\ UNCHANGED pf

(***************************************************************************)
(* schemes                                                                 *)
(***************************************************************************)
schemes_run(f) ==
    LET order == ColMajor(f)
    IN  [error |-> "", line |-> 0, visited |-> order,
         printed |-> {Column(f, order[i][1], order[i][2]).compression :
                        i \in 1 .. Len(order)}]

schemes ==
    /\ NotRun
    /\ out' = [cmd |-> "schemes"] @@ schemes_run(pf)
    /\ UNCHANGED pf

(***************************************************************************)
(* types                                                                   *)
(***************************************************************************)
\* d[k] of a dict that has the key
DictGet(d, k) == d[CHOOSE i \in 1 .. Len(d) : d[i][1] = k][2]

\* inventories of render_sunburst: parent -> {child or 'Other' -> value}
RECURSIVE InventoriesFrom(_, _, _, _, _)
InventoriesFrom(inventories, source, parent_key, child_key, group_under) ==
    IF source = <<>> THEN inventories
    ELSE LET rec == Head(source)
             inv1 == IF ~DictHas(inventories, rec[parent_key])
                       THEN DictSet(inventories, rec[parent_key], <<>>)
                       ELSE inventories
             country_name == IF rec["value"] > group_under THEN rec[child_key] ELSE "Other"
             inner == DictGet(inv1, rec[parent_key])
             inner1 == IF DictHas(inner, country_name)
                         THEN DictSet(inner, country_name,
                                      DictGet(inner, country_name) + rec["value"])
                         ELSE DictSet(inner, country_name, rec["value"])
         IN  InventoriesFrom(DictSet(inv1, rec[parent_key], inner1), Tail(source),
                             parent_key, child_key, group_under)

\* the data_pair handed to the Sunburst chart: one item per parent, with one
\* child item per name of its inventory
render_sunburst(source, parent_key, child_key, group_under) ==
    LET inventories == InventoriesFrom(<<>>, source, parent_key, child_key, group_under)
    IN  [i \in 1 .. Len(inventories) |->
           [name |-> inventories[i][1],
            children |-> [j \in 1 .. Len(inventories[i][2]) |->
                            [name |-> inventories[i][2][j][1],
                             value |-> inventories[i][2][j][2]]]]]

\* stats of the html mode: physical type -> {column name -> compressed bytes}
RECURSIVE TypeStatsFrom(_, _, _)
TypeStatsFrom(f, stats, rest) ==
    IF rest = <<>> THEN stats
    ELSE LET rg == Head(rest)[1]
             col == Head(rest)[2]
             pt == f.physical_type[col]
             st1 == IF ~DictHas(stats, pt) THEN DictSet(stats, pt, <<>>) ELSE stats
             inner == DictGet(st1, pt)
             inner1 == IF ~DictHas(inner, ColPath(col))
                         THEN DictSet(inner, ColPath(col), 0) ELSE inner
             inner2 == DictSet(inner1, ColPath(col),
                               DictGet(inner1, ColPath(col))
                                 + Column(f, rg, col).total_compressed_size)
         IN  TypeStatsFrom(f, DictSet(st1, pt, inner2), Tail(rest))

\* stats2: one record per (type, column) of stats
RECURSIVE Stats2From(_)
Stats2From(stats) ==
    IF stats = <<>> THEN <<>>
    ELSE [j \in 1 .. Len(Head(stats)[2]) |->
            [type |-> Head(stats)[1], col_name |-> Head(stats)[2][j][1],
             value |-> Head(stats)[2][j][2]]]
         \o Stats2From(Tail(stats))

types_html(f) ==
    LET order == ColMajor(f)
        stats == TypeStatsFrom(f, <<>>, order)
        stats2 == Stats2From(stats)
    IN  [error |-> "", line |-> 0, visited |-> order,
         printed |-> render_sunburst(stats2, "type", "col_name", 0)]

types_plain(f) ==
    LET order == ColMajor(f)
        counters == [i \in 1 .. Len(order) |->
                       << <<f.physical_type[order[i][2]],
                            Column(f, order[i][1], order[i][2]).total_compressed_size>> >>]
    IN  IF counters = <<>>
          THEN [error |-> "TypeError", line |-> 189, visited |-> order, printed |-> <<>>]
          ELSE LET summed == ReduceAdd(counters)
                   sizes_ == Sorted(summed, ItemGetter(summed, 2), TRUE)
               IN  [error |-> "", line |-> 0, visited |-> order,
                    printed |-> [i \in 1 .. Len(sizes_) |->
                                   [field |-> sizes_[i][1], num_bytes |-> sizes_[i][2],
                                    text |-> NaturalSize(sizes_[i][2])]]]

types ==
    /\ NotRun
    /\ \E html \in BOOLEAN :
         out' = [cmd |-> "types", html |-> html]
                  @@ (IF html THEN types_html(pf) ELSE types_plain(pf))
    /\ UNCHANGED pf

(***************************************************************************)
(* overall and row_groups                                                  *)
(***************************************************************************)
\* FileMetaData.num_rows of a valid footer: the rows of all row groups
NumRows(f) == SumSeq([i \in 1 .. f.num_row_groups |-> f.rg_num_rows[i - 1]])

overall ==
    /\ NotRun
    /\ out' = [cmd |-> "overall", error |-> "", line |-> 0,
               printed |-> [num_columns |-> pf.num_columns, num_rows |-> NumRows(pf),
                            num_row_groups |-> pf.num_row_groups]]
    /\ UNCHANGED pf

row_groups_run(f, sort_key, reverse) ==
    LET sort_id == IF sort_key = "row-groups" THEN 1 ELSE 0
        counted == CounterOf([i \in 1 .. f.num_row_groups |-> f.rg_num_rows[i - 1]])
        items == Sorted(counted, ItemGetter(counted, sort_id + 1), reverse)
    IN  render_table([i \in 1 .. Len(items) |->
                        [num_records |-> items[i][1], num_rg |-> items[i][2]]])

row_groups ==
    /\ NotRun
    /\ \E sort_key \in {"row-groups", "records"}, reverse \in BOOLEAN :
         out' = [cmd |-> "row_groups", sort_key |-> sort_key, reverse |-> reverse]
                  @@ row_groups_run(pf, sort_key, reverse)
    /\ UNCHANGED pf

(***************************************************************************)
(* most_compressed                                                         *)
(***************************************************************************)
\* (variant: no chunk is filtered out)
SkippedNever(min_size, x) == FALSE

\* (variant: the comparison is turned around)
SkippedLarger(min_size, x) == min_size /= 0 /\ min_size < x.total_uncompressed_size

\* if min_size and min_size > x.total_uncompressed_size: continue
Skipped(min_size, x) == min_size /= 0 /\ min_size > x.total_uncompressed_size

\* a / b raises ZeroDivisionError when b is 0, also for 0 / 0
DivisionFails(a, b) == b = 0

\* lowest_val > ratio, both quotients with a positive divisor
RatioGreater(p, q) == p[1] * q[2] > q[1] * p[2]

\* not lowest_val or lowest_val > ratio: None and 0.0 are both falsy
Replaces(lowest_val, ratio) ==
    \/ lowest_val = None
    \/ lowest_val[1][1] = 0
    \/ RatioGreater(lowest_val[1], ratio)

\* the scan of lines 211-222 over the chunks not yet visited; st carries
\* lowest_val, lowest_rg, lowest_col and the pairs visited so far
RECURSIVE ScanFrom(_, _, _, _)
ScanFrom(f, min_size, st, rest) ==
    IF rest = <<>> THEN st
    ELSE LET rg == Head(rest)[1]
             col == Head(rest)[2]
             x == Column(f, rg, col)
             seen == [st EXCEPT !.visited = Append(@, Head(rest))]
             ratio == <<x.total_compressed_size, x.total_uncompressed_size>>
         IN  IF Skipped(min_size, x)
               THEN ScanFrom(f, min_size, seen, Tail(rest))
             ELSE IF DivisionFails(x.total_compressed_size, x.total_uncompressed_size)
               THEN [seen EXCEPT !.error = "ZeroDivisionError", !.line = 218]
             ELSE IF Replaces(st.lowest_val, ratio)
               THEN ScanFrom(f, min_size,
                             [seen EXCEPT !.lowest_val = Some(ratio),
                                          !.lowest_rg = Some(rg), !.lowest_col = Some(col)],
                             Tail(rest))
             ELSE ScanFrom(f, min_size, seen, Tail(rest))

\* '%d' of a non-negative quotient truncates it
FormatD(a, b) == a \div b

most_compressed_run(f, min_size) ==
    LET scan == ScanFrom(f, min_size,
                         [error |-> "", line |-> 0, visited |-> <<>>, lowest_val |-> None,
                          lowest_rg |-> None, lowest_col |-> None],
                         RgMajor(f))
    IN  IF scan.error /= "" THEN scan @@ [printed |-> <<>>]
        \* row_group(None) is a TypeError
        ELSE IF scan.lowest_rg = None THEN [scan EXCEPT !.error = "TypeError", !.line = 224] @@ [printed |-> <<>>]
        ELSE LET rg_column == Column(f, scan.lowest_rg[1], scan.lowest_col[1])
             IN  IF DivisionFails(rg_column.total_uncompressed_size,
                                  rg_column.total_compressed_size)
                   THEN [scan EXCEPT !.error = "ZeroDivisionError", !.line = 229] @@ [printed |-> <<>>]
                   ELSE scan @@
                        [printed |-> <<[from |-> NaturalSize(rg_column.total_uncompressed_size),
                                        to |-> NaturalSize(rg_column.total_compressed_size),
                                        ratio |-> FormatD(rg_column.total_uncompressed_size,
                                                          rg_column.total_compressed_size),
                                        rg |-> scan.lowest_rg[1],
                                        col |-> scan.lowest_col[1],
                                        rg_column |-> rg_column]>>]

most_compressed ==
    /\ NotRun
    /\ \E min_size \in MinSizes :
         out' = [cmd |-> "most_compressed", min_size |-> min_size]
                  @@ most_compressed_run(pf, min_size)
    /\ UNCHANGED pf

(***************************************************************************)
(* ratios                                                                  *)
(***************************************************************************)
\* The tenths of a / b (a >= 0, b > 0) rounded to the nearest tenth, as '%.1f'
\* rounds the quotient.  A quotient exactly half way between two tenths is
\* rounded by its binary expansion; no quotient of the model is one.
RoundTenths(a, b) ==
    CASE (20 * a + b) % (2 * b) /= 0 -> (20 * a + b) \div (2 * b)

\* decimal digits of n as character codes ('0' is 48)
RECURSIVE Digits(_)
Digits(n) == IF n < 10 THEN <<48 + n>> ELSE Digits(n \div 10) \o <<48 + (n % 10)>>

\* '%.1f' % (a / b): the characters of the text ('.' is 46)
Format1f(a, b) ==
    LET t == RoundTenths(a, b) IN Digits(t \div 10) \o <<46, 48 + (t % 10)>>

\* float(text) of a text with one decimal, in tenths
RECURSIVE FloatTenthsFrom(_, _)
FloatTenthsFrom(acc, text) ==
    IF text = <<>> THEN acc
    ELSE IF Head(text) = 46 THEN FloatTenthsFrom(acc, Tail(text))
    ELSE FloatTenthsFrom(10 * acc + (Head(text) - 48), Tail(text))

FloatTenths(text) == FloatTenthsFrom(0, text)

\* s < t of two str
RECURSIVE StrLess(_, _)
StrLess(s, t) ==
    IF t = <<>> THEN FALSE
    ELSE IF s = <<>> THEN TRUE
    ELSE IF Head(s) /= Head(t) THEN Head(s) < Head(t)
    ELSE StrLess(Tail(s), Tail(t))

\* the rank of each item's key among the keys, which orders them as str does
StrKeys(items) ==
    [i \in 1 .. Len(items) |->
        Cardinality({j \in 1 .. Len(items) : StrLess(items[j][1], items[i][1])})]

\* the loop of lines 244-248; st carries ratios_ and the pairs visited
RECURSIVE RatiosFrom(_, _, _)
RatiosFrom(f, st, rest) ==
    IF rest = <<>> THEN st
    ELSE LET x == Column(f, Head(rest)[1], Head(rest)[2])
             seen == [st EXCEPT !.visited = Append(@, Head(rest))]
         IN  IF DivisionFails(x.total_compressed_size, x.total_uncompressed_size)
               THEN [seen EXCEPT !.error = "ZeroDivisionError", !.line = 247]
               ELSE RatiosFrom(f,
                               [seen EXCEPT !.ratios_ =
                                  Append(@, Format1f(x.total_compressed_size,
                                                     x.total_uncompressed_size))],
                               Tail(rest))

ratios_run(f, sort_key, reverse) ==
    LET loop == RatiosFrom(f, [error |-> "", line |-> 0, visited |-> <<>>, ratios_ |-> <<>>], RgMajor(f))
        sort_id == IF sort_key = "ratio" THEN 0 ELSE 1
        counted == CounterOf(loop.ratios_)
        items == Sorted(counted,
                        IF sort_id = 0 THEN StrKeys(counted) ELSE ItemGetter(counted, 2),
                        reverse)
    IN  IF loop.error /= "" THEN loop @@ [table |-> <<>>]
        \* 1 / float(ratio) of the text '0.0'
        ELSE IF \E i \in 1 .. Len(items) : DivisionFails(10, FloatTenths(items[i][1]))
          THEN [loop EXCEPT !.error = "ZeroDivisionError", !.line = 252] @@ [table |-> <<>>]
        ELSE render_table([i \in 1 .. Len(items) |->
                             [ratio |-> Format1f(10, FloatTenths(items[i][1])) \o <<58, 49>>,
                              num_rg |-> items[i][2]]])
             @@ loop

ratios ==
    /\ NotRun
    /\ \E sort_key \in {"ratio", "row-groups"}, reverse \in BOOLEAN :
         out' = [cmd |-> "ratios", sort_key |-> sort_key, reverse |-> reverse]
                  @@ ratios_run(pf, sort_key, reverse)
    /\ UNCHANGED pf

(***************************************************************************)
(* ratios_by_column                                                        *)
(***************************************************************************)
\* the records of the DataFrame, lines 285-292
RECURSIVE EfficiencyFrom(_, _, _)
EfficiencyFrom(f, st, rest) ==
    IF rest = <<>> THEN st
    ELSE LET rg == Head(rest)[1]
             col == Head(rest)[2]
             x == Column(f, rg, col)
             seen == [st EXCEPT !.visited = Append(@, Head(rest))]
         IN  IF DivisionFails(x.total_compressed_size, x.total_uncompressed_size)
               THEN [seen EXCEPT !.error = "ZeroDivisionError", !.line = 289, !.printed = <<>>]
               ELSE EfficiencyFrom(f,
                      [seen EXCEPT !.printed =
                         Append(@, [rowgroup |-> rg, column |-> ColPath(col),
                                    efficiency |-> <<x.total_compressed_size,
                                                     x.total_uncompressed_size>>])],
                      Tail(rest))

ratios_by_column_run(f) ==
    EfficiencyFrom(f, [error |-> "", line |-> 0, visited |-> <<>>, printed |-> <<>>], RgMajor(f))

ratios_by_column ==
    /\ NotRun
    /\ out' = [cmd |-> "ratios_by_column"] @@ ratios_by_column_run(pf)
    /\ UNCHANGED pf

(***************************************************************************)
(* minmax                                                                  *)
(***************************************************************************)
\* Statistics.min and Statistics.max
StatMin(st) == IF st.has_min_max THEN Some(st.min) ELSE None

StatMax(st) == IF st.has_min_max THEN Some(st.max) ELSE None

minmax_run(f, column) ==
    LET col_nums == {c \in 0 .. f.num_columns - 1 : ColPath(c) = column}
    IN  IF col_nums = {} THEN [error |-> "IndexError", line |-> 266, table |-> <<>>]
        ELSE LET col_num == CHOOSE c \in col_nums : \A d \in col_nums : c <= d
             IN  \* .min of a statistics that is None
                 IF \E rg \in 0 .. f.num_row_groups - 1 :
                       ~Column(f, rg, col_num).statistics.is_set
                   THEN [error |-> "AttributeError", line |-> 270, table |-> <<>>]
                   ELSE render_table(
                          [i \in 1 .. f.num_row_groups |->
                             [rg_num |-> i - 1,
                              min |-> StatMin(Column(f, i - 1, col_num).statistics),
                              max |-> StatMax(Column(f, i - 1, col_num).statistics)]])

minmax ==
    /\ NotRun
    /\ \E column \in {ColPath(c) : c \in 0 .. MaxCol} :
         out' = [cmd |-> "minmax", column |-> column] @@ minmax_run(pf, column)
    /\ UNCHANGED pf

(***************************************************************************)
(* The program: a file is opened and one command is run on it.             *)
(***************************************************************************)
Next ==
    \/ overall
    \/ row_groups
    \/ schemes
    \/ sizes
    \/ types
    \/ most_compressed
    \/ ratios
    \/ minmax
    \/ ratios_by_column

Statistics == {NoStatistics, StatsWithoutMinMax} \cup StatsWithMinMax

\* files that differ in the sizes of their chunks
Init ==
    /\ pf \in ParquetFiles(MaxRG, MaxCol, SizePairs, {NoStatistics}, {1}, {"INT32"})
    /\ out = [cmd |-> "none"]

Spec == Init /\ [][Next]_vars

\* files that differ in their compressed sizes and physical types
InitTypes ==
    /\ pf \in ParquetFiles(MaxRG, MaxCol, CSizes \X {1}, {NoStatistics}, {1}, PhysicalTypes)
    /\ out = [cmd |-> "none"]

SpecTypes == InitTypes /\ [][Next]_vars

\* files that differ in the statistics of their chunks
InitStats ==
    /\ pf \in ParquetFiles(MaxRG, MaxCol, {<<1, 1>>}, Statistics, {1}, {"INT32"})
    /\ out = [cmd |-> "none"]

SpecStats == InitStats /\ [][Next]_vars

\* files that differ in the rows of their row groups
InitRows ==
    /\ pf \in ParquetFiles(MaxRowsRG, 1, {<<1, 1>>}, {StatsWithoutMinMax}, RowCounts, {"INT32"})
    /\ out = [cmd |-> "none"]

SpecRows == InitRows /\ [][Next]_vars

(***************************************************************************)
(* Properties.                                                             *)
(***************************************************************************)
Pairs(f) == (0 .. f.num_row_groups - 1) \X (0 .. f.num_columns - 1)

HasChunks(f) == f.num_row_groups >= 1 /\ f.num_columns >= 1

\* sum of total_compressed_size over the chunks of the pairs in ps
RECURSIVE CompressedOf(_, _)
CompressedOf(f, ps) ==
    IF ps = {} THEN 0
    ELSE LET p == CHOOSE q \in ps : TRUE
         IN  Column(f, p[1], p[2]).total_compressed_size + CompressedOf(f, ps \ {p})

ColumnTotal(f, col) == CompressedOf(f, {p \in Pairs(f) : p[2] = col})

TypeTotal(f, pt) == CompressedOf(f, {p \in Pairs(f) : f.physical_type[p[2]] = pt})

TypesOf(f) == {f.physical_type[col] : col \in 0 .. f.num_columns - 1}

NoDuplicates(s) == \A i, j \in 1 .. Len(s) : s[i] = s[j] => i = j

Range(s) == {s[i] : i \in 1 .. Len(s)}

VisitsAll(f, visited) ==
    /\ NoDuplicates(visited)
    /\ Range(visited) = Pairs(f)
    /\ Len(visited) = f.num_row_groups * f.num_columns

HasEmptyChunk(f) == \E p \in Pairs(f) : Column(f, p[1], p[2]).total_uncompressed_size = 0

Aggregates(o) ==
    \/ o.cmd \in {"schemes", "sizes", "types", "ratios", "ratios_by_column"}
    \/ o.cmd = "most_compressed" /\ o.min_size = 0

Divides(o) ==
    \/ o.cmd \in {"ratios", "ratios_by_column"}
    \/ o.cmd = "most_compressed" /\ o.min_size = 0

\* C1 (as claimed): for a file with at least one row group and one column,
\* sizes prints each column path of the schema exactly once, with the sum of
\* the column's total_compressed_size over all row groups, also when that
\* sum is 0.
C1_SizesReportsEveryColumn ==
    (out.cmd = "sizes" /\ HasChunks(pf)) =>
        /\ out.error = ""
        /\ \A col \in 0 .. pf.num_columns - 1 :
              /\ Cardinality({i \in 1 .. Len(out.printed) :
                                out.printed[i].field = ColPath(col)}) = 1
              /\ \A i \in 1 .. Len(out.printed) :
                    out.printed[i].field = ColPath(col)
                      => out.printed[i].num_bytes = ColumnTotal(pf, col)

\* min_size = 0 or total_uncompressed_size >= min_size
Qualifies(min_size, x) == min_size = 0 \/ x.total_uncompressed_size >= min_size

\* C2 (as claimed): when every chunk has total_uncompressed_size > 0 and
\* total_compressed_size >= 0 and some chunk qualifies, the pair selected at
\* the end of the scan of most_compressed is a qualifying chunk whose ratio
\* compressed / uncompressed is at most that of every qualifying chunk.
C2_SelectsLowestRatio ==
    ( /\ out.cmd = "most_compressed"
      /\ \A p \in Pairs(pf) : /\ Column(pf, p[1], p[2]).total_uncompressed_size > 0
                              /\ Column(pf, p[1], p[2]).total_compressed_size >= 0
      /\ \E p \in Pairs(pf) : Qualifies(out.min_size, Column(pf, p[1], p[2])) ) =>
        /\ out.lowest_rg /= None
        /\ out.lowest_col /= None
        /\ LET sel == Column(pf, out.lowest_rg[1], out.lowest_col[1])
           IN  /\ Qualifies(out.min_size, sel)
               /\ \A p \in Pairs(pf) :
                     LET x == Column(pf, p[1], p[2])
                     IN  Qualifies(out.min_size, x) =>
                           sel.total_compressed_size * x.total_uncompressed_size
                             <= x.total_compressed_size * sel.total_uncompressed_size

\* C3 (as claimed): in every aggregate command the traversal visits every
\* pair (rg, col) exactly once: none twice, none skipped, num_row_groups *
\* num_columns visits in all.
C3_VisitsEveryChunk == Aggregates(out) => VisitsAll(pf, out.visited)

\* C3 (amended): in every aggregate command no pair is visited twice, and
\* every pair is visited exactly once unless the command divides by the
\* uncompressed size (ratios, ratios_by_column, most_compressed with
\* min_size = 0) and the file has a chunk whose total_uncompressed_size is 0;
\* then the traversal stops at the first such chunk in row-group-major order
\* and the pairs after it are not visited.
C3_VisitsEveryChunkUntilDivisionFails ==
    Aggregates(out) =>
        /\ NoDuplicates(out.visited)
        /\ Range(out.visited) \subseteq Pairs(pf)
        /\ ~(Divides(out) /\ HasEmptyChunk(pf)) => VisitsAll(pf, out.visited)
        /\ (Divides(out) /\ HasEmptyChunk(pf)) =>
              /\ out.error = "ZeroDivisionError"
              /\ LET n == Len(out.visited)
                 IN  /\ n >= 1
                     /\ out.visited = SubSeq(RgMajor(pf), 1, n)
                     /\ \A i \in 1 .. n :
                           (Column(pf, out.visited[i][1], out.visited[i][2])
                              .total_uncompressed_size = 0) <=> (i = n)

\* a traversal of a 2 x 2 file that ran to its end, and one that was cut short
C3_Witness ==
    /\ out.cmd = "ratios"
    /\ pf.num_row_groups = 2 /\ pf.num_columns = 2
    /\ ~HasEmptyChunk(pf)
    /\ Len(out.visited) = 4

\* C4 (as claimed): minmax on an existing column, when some row group's chunk
\* of that column has no Statistics or Statistics without min/max, still
\* gives one row per row group in ascending order, with min and max unknown
\* (None) for that row group, and the command is not aborted.
C4_AbsentStatisticsAreUnknown ==
    ( /\ out.cmd = "minmax"
      /\ \E col \in 0 .. pf.num_columns - 1 : ColPath(col) = out.column
      /\ \E rg \in 0 .. pf.num_row_groups - 1, col \in 0 .. pf.num_columns - 1 :
            /\ ColPath(col) = out.column
            /\ ~Column(pf, rg, col).statistics.has_min_max ) =>
        /\ out.error = ""
        /\ Len(out.table) = pf.num_row_groups
        /\ \A i \in 1 .. Len(out.table) :
              /\ out.table[i].rg_num = i - 1
              /\ \A col \in 0 .. pf.num_columns - 1 :
                    (ColPath(col) = out.column
                       /\ ~Column(pf, i - 1, col).statistics.has_min_max)
                      => out.table[i].min = None /\ out.table[i].max = None

\* C5 (as claimed): when every chunk has total_compressed_size > 0 and
\* total_uncompressed_size > 0, ratios completes without error and prints one
\* row per distinct ratio rounded to one decimal, and the num_rg of the rows
\* sum to num_row_groups * num_columns.
C5_RatiosCompletes ==
    ( /\ out.cmd = "ratios"
      /\ HasChunks(pf)
      /\ \A p \in Pairs(pf) : /\ Column(pf, p[1], p[2]).total_compressed_size > 0
                              /\ Column(pf, p[1], p[2]).total_uncompressed_size > 0 ) =>
        /\ out.error = ""
        /\ Len(out.table) =
             Cardinality({Format1f(Column(pf, p[1], p[2]).total_compressed_size,
                                   Column(pf, p[1], p[2]).total_uncompressed_size) :
                            p \in Pairs(pf)})
        /\ SumSeq([i \in 1 .. Len(out.table) |-> out.table[i].num_rg])
             = pf.num_row_groups * pf.num_columns

\* C6: for a file with at least one row group, and for every sort_key and
\* reverse, the table of row_groups has exactly one row per distinct row
\* count, its num_rg sum to num_row_groups, and the sum of num_records *
\* num_rg equals the file's total row count.
C6_RowGroupsHistogram ==
    (out.cmd = "row_groups" /\ pf.num_row_groups >= 1) =>
        /\ out.error = ""
        /\ {out.table[i].num_records : i \in 1 .. Len(out.table)}
             = {pf.rg_num_rows[rg] : rg \in 0 .. pf.num_row_groups - 1}
        /\ Len(out.table) =
             Cardinality({pf.rg_num_rows[rg] : rg \in 0 .. pf.num_row_groups - 1})
        /\ SumSeq([i \in 1 .. Len(out.table) |-> out.table[i].num_rg]) = pf.num_row_groups
        /\ SumSeq([i \in 1 .. Len(out.table) |->
                     out.table[i].num_records * out.table[i].num_rg]) = NumRows(pf)

\* four row groups with two distinct row counts, one of them shared
C6_Witness ==
    /\ out.cmd = "row_groups"
    /\ pf.num_row_groups = 4
    /\ out.sort_key = "records" /\ ~out.reverse
    /\ Len(out.table) = 2
    /\ \E i \in 1 .. Len(out.table) : out.table[i].num_rg = 3 /\ out.table[i].num_records = 2

\* C7 (as claimed): for a file with at least one chunk, the physical types and
\* totals printed by the plain mode of types equal the parents and the sums
\* of their children built by the html mode, and both equal the sum of
\* total_compressed_size over the chunks of that type, also when it is 0.
C7_TypesModesAgree ==
    (out.cmd = "types" /\ ~out.html /\ HasChunks(pf)) =>
        LET data == types_html(pf).printed
            ChildSum(item) == SumSeq([j \in 1 .. Len(item.children) |->
                                        item.children[j].value])
        IN  /\ out.error = ""
            /\ {out.printed[i].field : i \in 1 .. Len(out.printed)}
                 = {data[i].name : i \in 1 .. Len(data)}
            /\ {out.printed[i].field : i \in 1 .. Len(out.printed)} = TypesOf(pf)
            /\ \A i \in 1 .. Len(out.printed) :
                  /\ out.printed[i].num_bytes = TypeTotal(pf, out.printed[i].field)
                  /\ \A k \in 1 .. Len(data) :
                        data[k].name = out.printed[i].field
                          => ChildSum(data[k]) = out.printed[i].num_bytes

\* C8: most_compressed with min_size = 0 on a file with a chunk whose
\* total_uncompressed_size is 0 ends in ZeroDivisionError at the division of
\* the scan and prints nothing; with min_size > 0 such a chunk is skipped
\* before the division, so the scan never fails and visits every chunk;
\* ratios and ratios_by_column end in ZeroDivisionError at their division
\* for every file with such a chunk.
C8_DivisionByZero ==
    /\ (out.cmd = "most_compressed" /\ out.min_size = 0 /\ HasEmptyChunk(pf)) =>
          /\ out.error = "ZeroDivisionError" /\ out.line = 218
          /\ out.printed = <<>>
    /\ (out.cmd = "most_compressed" /\ out.min_size > 0) =>
          /\ out.line /= 218
          /\ VisitsAll(pf, out.visited)
          /\ out.lowest_rg /= None =>
                Column(pf, out.lowest_rg[1], out.lowest_col[1]).total_uncompressed_size > 0
    /\ (out.cmd = "ratios" /\ HasEmptyChunk(pf)) =>
          /\ out.error = "ZeroDivisionError" /\ out.line = 247
          /\ out.table = <<>>
    /\ (out.cmd = "ratios_by_column" /\ HasEmptyChunk(pf)) =>
          /\ out.error = "ZeroDivisionError" /\ out.line = 289
          /\ out.printed = <<>>

\* min_size > 0 lets the scan pass an empty chunk and report another one
C8_Witness ==
    /\ out.cmd = "most_compressed"
    /\ out.min_size = 1
    /\ HasEmptyChunk(pf)
    /\ out.error = ""
    /\ out.printed /= <<>>

\* C9: most_compressed never reports a chunk that fails the min_size filter.
\* If no chunk qualifies (every chunk has total_uncompressed_size < min_size,
\* which includes a file without row groups or without columns), lowest_rg and
\* lowest_col are still None after the scan and the command ends in an error
\* without printing; and a chunk printed with min_size > 0 has
\* total_uncompressed_size >= min_size.
C9_NeverReportsFilteredChunk ==
    out.cmd = "most_compressed" =>
        /\ (\A p \in Pairs(pf) :
              Column(pf, p[1], p[2]).total_uncompressed_size < out.min_size) =>
              /\ out.lowest_rg = None /\ out.lowest_col = None
              /\ out.error /= ""
              /\ out.printed = <<>>
        /\ (out.printed /= <<>> /\ out.min_size > 0) =>
              out.printed[1].rg_column.total_uncompressed_size >= out.min_size

\* some chunks are below min_size and a chunk that is not is reported
C9_Witness ==
    /\ out.cmd = "most_compressed"
    /\ out.min_size = 30
    /\ \E p \in Pairs(pf) : Column(pf, p[1], p[2]).total_uncompressed_size < 30
    /\ out.printed /= <<>>
    /\ out.printed[1].rg_column.total_uncompressed_size = 30
====
